---- MODULE Spec2Model ----
(***************************************************************************)
(* Cache-key bits of rest_framework_extensions/key_constructor/bits.py.    *)
(*                                                                         *)
(* Every key bit exposes get_data(params, view_instance, view_method,      *)
(* request, args, kwargs).  The state holds the objects of one request     *)
(* snapshot (the context tuple and the bits' own self.params) and the      *)
(* outcome of the most recent get_data call.  One action per key bit       *)
(* class models one call of its get_data on the context.                   *)
(*                                                                         *)
(* Text is a sequence of one-character strings, so that lower-casing,      *)
(* header-name preparation, decimal formatting and joining are computed.   *)
(* A Python value is a record [t, i, s]: t is the type tag, i the integer  *)
(* (for "int"), s the text (for "str").                                    *)
(***************************************************************************)
EXTENDS Integers, Sequences, FiniteSets, TLC

VARIABLES self_params, params, args, kwargs, request, view_instance,
          view_method, language, last

vars == <<self_params, params, args, kwargs, request, view_instance,
          view_method, language, last>>

\* The objects a get_data call could write to: the bit's configuration and
\* the mutable members of the context tuple.
heap == <<self_params, params, args, kwargs>>

(***************************************************************************)
(* Bounds                                                                  *)
(***************************************************************************)
MaxParams == 2      \* longest params list
MaxArgs == 2        \* longest positional-argument sequence

(***************************************************************************)
(* Text literals                                                           *)
(***************************************************************************)
S_Accept_Language == <<"A", "c", "c", "e", "p", "t", "-", "L", "a", "n", "g", "u", "a", "g", "e">>
S_accept_language == <<"a", "c", "c", "e", "p", "t", "-", "l", "a", "n", "g", "u", "a", "g", "e">>
S_http_accept_language == <<"h", "t", "t", "p", "_", "a", "c", "c", "e", "p", "t", "_", "l", "a", "n", "g", "u", "a", "g", "e">>
S_http_ == <<"h", "t", "t", "p", "_">>
S_anonymous == <<"a", "n", "o", "n", "y", "m", "o", "u", "s">>
S_None == <<"N", "o", "n", "e">>
S_page == <<"p", "a", "g", "e">>
S_page_size == <<"p", "a", "g", "e", "_", "s", "i", "z", "e">>
S_part == <<"p", "a", "r", "t">>
S_id == <<"i", "d">>
S_format == <<"f", "o", "r", "m", "a", "t">>
S_json == <<"j", "s", "o", "n">>
S_html == <<"h", "t", "m", "l">>
S_ru == <<"r", "u">>
S_en == <<"e", "n">>
S_pk == <<"p", "k">>
S_slug == <<"s", "l", "u", "g">>
S_abc == <<"a", "b", "c">>
S_views == <<"v", "i", "e", "w", "s">>
S_UserView == <<"U", "s", "e", "r", "V", "i", "e", "w">>
S_list == <<"l", "i", "s", "t">>
S_SELECT == <<"S", "E", "L", "E", "C", "T">>
S_WHERE == <<" ", "W", "H", "E", "R", "E", " ">>
S_dot == <<".">>
S_eq == <<"=">>

UpperChars == <<"A", "B", "C", "D", "E", "F", "G", "H", "I", "J", "K", "L", "M", "N", "O", "P", "Q", "R", "S", "T", "U", "V", "W", "X", "Y", "Z">>
LowerChars == <<"a", "b", "c", "d", "e", "f", "g", "h", "i", "j", "k", "l", "m", "n", "o", "p", "q", "r", "s", "t", "u", "v", "w", "x", "y", "z">>
DigitChars == <<"0", "1", "2", "3", "4", "5", "6", "7", "8", "9">>

(***************************************************************************)
(* Python values                                                           *)
(***************************************************************************)
PyNone == [t |-> "None", i |-> 0, s |-> <<>>]
PyInt(n) == [t |-> "int", i |-> n, s |-> <<>>]
PyStr(x) == [t |-> "str", i |-> 0, s |-> x]

\* params / self.params: None or a list
NoParams == [t |-> "None", l |-> <<>>]
ParamList(l) == [t |-> "list", l |-> l]

EmptyDict == [k \in {} |-> PyNone]

\* dict.get(key): the value, or None when the key is missing.  Every dict of
\* the model has text keys, so a key of another type is never found.
Dict_get(d, key) ==
    IF key.t = "str" /\ key.s \in DOMAIN d THEN d[key.s] ELSE PyNone

\* d[key] = value, key a text
Dict_set(d, key, value) == (key :> value) @@ d

RECURSIVE SetToSeq(_)
SetToSeq(S) ==
    IF S = {} THEN <<>>
    ELSE LET x == CHOOSE y \in S : TRUE IN <<x>> \o SetToSeq(S \ {x})

\* kwargs.keys(): the keys as a list (the order is the dict's own)
Dict_keys(d) == [n \in 1..Cardinality(DOMAIN d) |-> PyStr(SetToSeq(DOMAIN d)[n])]

\* The outcome of a call: a returned value (None, text, dict or list) or a
\* raised exception.
RetNone == [kind |-> "return", exc |-> "", t |-> "None", s |-> <<>>, d |-> EmptyDict, l |-> <<>>]
RetStr(x) == [kind |-> "return", exc |-> "", t |-> "str", s |-> x, d |-> EmptyDict, l |-> <<>>]
RetDict(x) == [kind |-> "return", exc |-> "", t |-> "dict", s |-> <<>>, d |-> x, l |-> <<>>]
RetList(x) == [kind |-> "return", exc |-> "", t |-> "list", s |-> <<>>, d |-> EmptyDict, l |-> x]
Raise(e) == [kind |-> "raise", exc |-> e, t |-> "None", s |-> <<>>, d |-> EmptyDict, l |-> <<>>]

(***************************************************************************)
(* Text conversions                                                        *)
(***************************************************************************)
\* decimal text of a natural number
RECURSIVE DecimalText(_)
DecimalText(n) ==
    IF n < 10 THEN <<DigitChars[n + 1]>>
    ELSE DecimalText(n \div 10) \o <<DigitChars[(n % 10) + 1]>>

\* force_text(value): text stays, other values are rendered as text
force_text(value) ==
    CASE value.t = "str" -> value.s
      [] value.t = "int" -> DecimalText(value.i)
      [] OTHER -> S_None

\* the lower-case letter of each upper-case letter
LowerTable ==
    [c \in {UpperChars[n] : n \in 1..Len(UpperChars)} |->
        LowerChars[CHOOSE n \in 1..Len(UpperChars) : UpperChars[n] = c]]

LowerChar(c) == IF c \in DOMAIN LowerTable THEN LowerTable[c] ELSE c

\* str.lower()
Lower(x) == [n \in 1..Len(x) |-> LowerChar(x[n])]

\* str.replace(old, new) for one-character old and new
Replace(x, old, new) == [n \in 1..Len(x) |-> IF x[n] = old THEN new ELSE x[n]]

\* utils.prepare_header_name: Accept-Language => http_accept_language
prepare_header_name(name) == S_http_ \o Replace(name, "-", "_")

\* u'.'.join(parts)
RECURSIVE Join(_, _)
Join(sep, parts) ==
    IF Len(parts) = 0 THEN <<>>
    ELSE IF Len(parts) = 1 THEN parts[1]
    ELSE parts[1] \o sep \o Join(sep, Tail(parts))

(***************************************************************************)
(* Key bits                                                                *)
(***************************************************************************)
DictBits == {"HeadersKeyBit", "RequestMetaKeyBit", "QueryParamsKeyBit",
             "PaginationKeyBit", "KwargsKeyBit"}

Bits == DictBits \cup
        {"KeyBitBase", "KeyBitDictBase", "UniqueViewIdKeyBit",
         "UniqueMethodIdKeyBit", "LanguageKeyBit", "FormatKeyBit",
         "UserKeyBit", "ListSqlQueryKeyBit", "RetrieveSqlQueryKeyBit",
         "ArgsKeyBit"}

\* KeyBitBase.__init__(params=None): self.params = params
KeyBitBase_init(p) == p

\* KeyBitBase.get_data
KeyBitBase_get_data == Raise("NotImplementedError")

\* get_source_dict of each dict-source bit; the base raises
HasSourceDict(bit) == bit \in DictBits

get_source_dict(bit, req, kw) ==
    CASE bit \in {"HeadersKeyBit", "RequestMetaKeyBit"} -> req.META
      [] bit \in {"QueryParamsKeyBit", "PaginationKeyBit"} -> req.GET
      [] bit = "KwargsKeyBit" -> kw
      [] OTHER -> EmptyDict

\* key.lower() exists on text only
CanPrepareKey(bit, key) == bit = "HeadersKeyBit" => key.t = "str"

prepare_key_for_value_retrieving(bit, key) ==
    IF bit = "HeadersKeyBit"
    THEN PyStr(prepare_header_name(Lower(key.s)))
    ELSE key

prepare_key_for_value_assignment_identity(bit, key) == key

prepare_key_for_value_assignment(bit, key) ==
    IF bit = "HeadersKeyBit" THEN PyStr(Lower(key.s)) ELSE key

KeyBitDictBase_store_always(bit, data, key, value) ==
    Dict_set(data, prepare_key_for_value_assignment(bit, key).s,
             PyStr(force_text(value)))

\* if value is not None: data[assignment key] = force_text(value)
KeyBitDictBase_store(bit, data, key, value) ==
    IF value.t # "None"
    THEN Dict_set(data, prepare_key_for_value_assignment(bit, key).s,
                  PyStr(force_text(value)))
    ELSE data

\* for key in params: ...; return data
RECURSIVE KeyBitDictBase_loop(_, _, _, _)
KeyBitDictBase_loop(bit, keys, source_dict, data) ==
    IF keys = <<>> THEN RetDict(data)
    ELSE LET key == Head(keys) IN
         IF ~CanPrepareKey(bit, key) THEN Raise("AttributeError")
         ELSE LET value == Dict_get(source_dict,
                                    prepare_key_for_value_retrieving(bit, key))
              IN KeyBitDictBase_loop(bit, Tail(keys), source_dict,
                                     KeyBitDictBase_store(bit, data, key, value))

\* KeyBitDictBase.get_data
KeyBitDictBase_get_data(bit, p, req, kw) ==
    IF ~HasSourceDict(bit) THEN Raise("NotImplementedError")
    ELSE IF p.t = "None" THEN Raise("TypeError")
    ELSE KeyBitDictBase_loop(bit, p.l, get_source_dict(bit, req, kw), EmptyDict)

\* UniqueViewIdKeyBit.get_data
UniqueViewIdKeyBit_get_data(view) ==
    RetStr(Join(S_dot, <<view.module, view.class_name>>))

\* UniqueMethodIdKeyBit.get_data
UniqueMethodIdKeyBit_get_data(view, method) ==
    RetStr(Join(S_dot, <<view.module, view.class_name, method.name>>))

\* LanguageKeyBit.get_data: get_language() reads the active language
LanguageKeyBit_get_data(lang) == RetStr(force_text(lang))

\* FormatKeyBit.get_data
FormatKeyBit_get_data(req) == RetStr(force_text(req.accepted_renderer_format))

UserKeyBit_get_id_from_user(user) == user.id

UserKeyBit_is_known(req) ==
    req.has_user /\ req.user.t # "None" /\ req.user.is_authenticated

UserKeyBit_get_data_no_auth_check(req) ==
    IF req.has_user /\ req.user.t # "None"
    THEN RetStr(force_text(UserKeyBit_get_id_from_user(req.user)))
    ELSE RetStr(S_anonymous)

\* UserKeyBit.get_data
UserKeyBit_get_data(req) ==
    IF UserKeyBit_is_known(req)
    THEN RetStr(force_text(UserKeyBit_get_id_from_user(req.user)))
    ELSE RetStr(S_anonymous)

\* PaginationKeyBit.get_data, the field list it builds in its own kwargs:
\* kwargs['params'] = [] and the appends of the declared parameter names
PaginationKeyBit_fields_keep_params(p, view) ==
    ParamList(p.l
              \o (IF view.has_page_kwarg THEN <<view.page_kwarg>> ELSE <<>>)
              \o (IF view.has_paginate_by_param
                  THEN <<view.paginate_by_param>> ELSE <<>>))

PaginationKeyBit_fields(p, view) ==
    ParamList((IF view.has_page_kwarg THEN <<view.page_kwarg>> ELSE <<>>)
              \o (IF view.has_paginate_by_param
                  THEN <<view.paginate_by_param>> ELSE <<>>))

PaginationKeyBit_caller_params_inplace(p, view) ==
    IF p.t = "None" THEN p ELSE PaginationKeyBit_fields_keep_params(p, view)

\* The caller's params list after PaginationKeyBit.get_data: **kwargs is a
\* dict of the call's own, and kwargs['params'] = [] rebinds its entry to a
\* fresh list, which is the one appended to.
PaginationKeyBit_caller_params(p, view) == p

\* PaginationKeyBit.get_data
PaginationKeyBit_get_data(p, view, req, kw) ==
    KeyBitDictBase_get_data("PaginationKeyBit", PaginationKeyBit_fields(p, view),
                            req, kw)

\* A queryset: whether it is the EmptyQuerySet sentinel, and its query text
QuerySet(empty, query) == [empty |-> empty, query |-> query]

\* view_instance.get_queryset()
get_queryset(view) == view.queryset

\* view_instance.filter_queryset(queryset): the view's filter backends either
\* pass the queryset on or answer queryset.none()
filter_queryset(view, queryset) ==
    IF view.filter_none THEN QuerySet(TRUE, queryset.query) ELSE queryset

IsDigits(x) ==
    Len(x) > 0 /\ \A n \in 1..Len(x) : \E m \in 1..Len(DigitChars) : DigitChars[m] = x[n]

\* Whether the lookup value converts to the lookup field's type: pk is an
\* integer field, every other field takes any text.
Converts(field, value) ==
    field = S_pk => (value.t = "int" \/ (value.t = "str" /\ IsDigits(value.s)))

\* queryset.filter(**{field: value}) for a value that converts
QuerySet_filter(queryset, field, value) ==
    QuerySet(queryset.empty,
             queryset.query \o S_WHERE \o field \o S_eq \o force_text(value))

SqlQuery_text_empty_string(queryset) ==
    IF queryset.empty THEN RetStr(<<>>) ELSE RetStr(force_text(PyStr(queryset.query)))

\* isinstance(queryset, EmptyQuerySet) -> None, else the query text
SqlQuery_text(queryset) ==
    IF queryset.empty THEN RetNone ELSE RetStr(force_text(PyStr(queryset.query)))

\* ListSqlQueryKeyBit.get_data
ListSqlQueryKeyBit_get_data(view) ==
    SqlQuery_text(filter_queryset(view, get_queryset(view)))

RetrieveSqlQueryKeyBit_reraise == Raise("ValueError")

\* except ValueError: return None
RetrieveSqlQueryKeyBit_except_ValueError == RetNone

\* RetrieveSqlQueryKeyBit.get_data
RetrieveSqlQueryKeyBit_get_data(view) ==
    IF view.lookup_field \notin DOMAIN view.kwargs THEN Raise("KeyError")
    ELSE LET lookup_value == view.kwargs[view.lookup_field] IN
         IF ~Converts(view.lookup_field, lookup_value)
         THEN RetrieveSqlQueryKeyBit_except_ValueError
         ELSE SqlQuery_text(QuerySet_filter(
                  filter_queryset(view, get_queryset(view)),
                  view.lookup_field, lookup_value))

\* [args[i] for i in indexes]
RECURSIVE ArgsKeyBit_select(_, _, _)
ArgsKeyBit_select(a, indexes, acc) ==
    IF indexes = <<>> THEN RetList(acc)
    ELSE LET i == Head(indexes) IN
         IF i.t # "int" THEN Raise("TypeError")
         ELSE IF i.i >= Len(a) THEN Raise("IndexError")
         ELSE ArgsKeyBit_select(a, Tail(indexes), Append(acc, a[i.i + 1]))

\* ArgsKeyBit.get_data: the index list is self.params; params is not read
ArgsKeyBit_get_data(selfp, p, a) ==
    IF selfp.t # "None" THEN ArgsKeyBit_select(a, selfp.l, <<>>) ELSE RetList(a)

KwargsKeyBit_params_as_given(p, kw) == p

\* params or kwargs.keys()
KwargsKeyBit_params(p, kw) ==
    IF p.t = "None" \/ p.l = <<>> THEN ParamList(Dict_keys(kw)) ELSE p

KwargsKeyBit_caller_params_extended(p, kw) ==
    IF p.t = "list" /\ p.l = <<>> THEN ParamList(Dict_keys(kw)) ELSE p

\* The caller's params list after KwargsKeyBit.get_data: params or
\* kwargs.keys() is an expression handed on to the base class; neither list
\* is assigned to.
KwargsKeyBit_caller_params(p, kw) == p

\* KwargsKeyBit.get_data
KwargsKeyBit_get_data(p, req, kw) ==
    KeyBitDictBase_get_data("KwargsKeyBit", KwargsKeyBit_params(p, kw), req, kw)

\* get_data of bit on the context tuple of the state
get_data(bit) ==
    CASE bit = "KeyBitBase" -> KeyBitBase_get_data
      [] bit \in {"KeyBitDictBase", "HeadersKeyBit", "RequestMetaKeyBit",
                  "QueryParamsKeyBit"} ->
             KeyBitDictBase_get_data(bit, params, request, kwargs)
      [] bit = "PaginationKeyBit" ->
             PaginationKeyBit_get_data(params, view_instance, request, kwargs)
      [] bit = "KwargsKeyBit" -> KwargsKeyBit_get_data(params, request, kwargs)
      [] bit = "UniqueViewIdKeyBit" -> UniqueViewIdKeyBit_get_data(view_instance)
      [] bit = "UniqueMethodIdKeyBit" ->
             UniqueMethodIdKeyBit_get_data(view_instance, view_method)
      [] bit = "LanguageKeyBit" -> LanguageKeyBit_get_data(language)
      [] bit = "FormatKeyBit" -> FormatKeyBit_get_data(request)
      [] bit = "UserKeyBit" -> UserKeyBit_get_data(request)
      [] bit = "ListSqlQueryKeyBit" -> ListSqlQueryKeyBit_get_data(view_instance)
      [] bit = "RetrieveSqlQueryKeyBit" ->
             RetrieveSqlQueryKeyBit_get_data(view_instance)
      [] bit = "ArgsKeyBit" ->
             ArgsKeyBit_get_data(self_params["ArgsKeyBit"], params, args)

(***************************************************************************)
(* Contexts                                                                *)
(***************************************************************************)
ListsOver(S, n) == UNION {[1..k -> S] : k \in 0..n}

ParamsOver(S) == {NoParams} \cup {ParamList(l) : l \in ListsOver(S, MaxParams)}

NoUser == [t |-> "None", is_authenticated |-> FALSE, id |-> PyNone]
User(auth, id) == [t |-> "User", is_authenticated |-> auth, id |-> id]

Request(meta, get, has_user, user, format) ==
    [META |-> meta, GET |-> get, has_user |-> has_user, user |-> user,
     accepted_renderer_format |-> format]

View(has_page, page, has_size, size, queryset, filter_none, lookup_field, kw) ==
    [module |-> S_views, class_name |-> S_UserView,
     has_page_kwarg |-> has_page, page_kwarg |-> page,
     has_paginate_by_param |-> has_size, paginate_by_param |-> size,
     queryset |-> queryset, filter_none |-> filter_none,
     lookup_field |-> lookup_field, kwargs |-> kw]

DefaultRequest == Request(EmptyDict, EmptyDict, FALSE, NoUser, PyStr(S_json))
DefaultView == View(FALSE, PyNone, FALSE, PyNone, QuerySet(FALSE, S_SELECT), FALSE,
                    S_pk, EmptyDict)
DefaultMethod == [name |-> S_list]
NotCalled == [bit |-> "none", out |-> RetNone]

\* A dict that holds, for each key of choices, one of the key's values or
\* nothing: choices maps a key to the set of values it may have.
DictsOf(choices) ==
    UNION {{d \in [D -> UNION {choices[k] : k \in D}] : \A k \in D : d[k] \in choices[k]}
           : D \in SUBSET DOMAIN choices}

MetaFields == {PyStr(S_Accept_Language), PyStr(S_accept_language)}
MetaDicts ==
    DictsOf([k \in {S_http_accept_language, S_Accept_Language} |->
                IF k = S_http_accept_language THEN {PyStr(S_ru), PyInt(123)}
                ELSE {PyStr(S_en)}])

QueryFields == {PyStr(S_page), PyStr(S_part)}
QueryDicts ==
    DictsOf([k \in {S_page, S_page_size, S_part} |->
                IF k = S_page_size THEN {PyInt(100)} ELSE {PyStr(<<"1">>)}])

KwargsFields == {PyStr(S_id), PyStr(S_part)}
KwargsDicts ==
    DictsOf([k \in {S_id, S_format} |->
                IF k = S_id THEN {PyNone, PyStr(<<"5">>), PyInt(5)}
                ELSE {PyNone, PyStr(S_json)}])

LookupDicts ==
    DictsOf([k \in {S_pk, S_slug} |-> {PyStr(<<"1">>), PyStr(S_abc), PyInt(5)}])

\* positional arguments: n distinct values
ArgsOfLen(n) == [k \in 1..n |-> PyInt(10 * k)]
ArgIndexes == {PyInt(n) : n \in 0..(MaxArgs - 1)}

\* Every bit is constructed with the params it is later called with, except
\* that ArgsKeyBit may be constructed with one index list and called with
\* another.
Constructed(p, argsp) ==
    [b \in Bits |-> KeyBitBase_init(IF b = "ArgsKeyBit" THEN argsp ELSE p)]

InitCommon(p, argsp, a, kw, req, view, method, lang) ==
    /\ self_params = Constructed(p, argsp)
    /\ params = p
    /\ args = a
    /\ kwargs = kw
    /\ request = req
    /\ view_instance = view
    /\ view_method = method
    /\ language = lang
    /\ last = NotCalled

InitMeta ==
    \E p \in ParamsOver(MetaFields), meta \in MetaDicts :
        InitCommon(p, NoParams, <<>>, EmptyDict,
                   Request(meta, EmptyDict, FALSE, NoUser, PyStr(S_json)),
                   DefaultView, DefaultMethod, PyStr(S_en))

InitQuery ==
    \E p \in ParamsOver(QueryFields), get \in QueryDicts,
       has_page \in BOOLEAN, has_size \in BOOLEAN,
       size \in {PyNone, PyStr(S_page_size)} :
        /\ (~has_size => size = PyNone)
        /\ InitCommon(p, NoParams, <<>>, EmptyDict,
                      Request(EmptyDict, get, FALSE, NoUser, PyStr(S_json)),
                      View(has_page, IF has_page THEN PyStr(S_page) ELSE PyNone,
                           has_size, size, QuerySet(FALSE, S_SELECT), FALSE,
                           S_pk, EmptyDict),
                      DefaultMethod, PyStr(S_en))

InitKwargs ==
    \E p \in ParamsOver(KwargsFields), kw \in KwargsDicts :
        InitCommon(p, NoParams, <<>>, kw, DefaultRequest, DefaultView,
                   DefaultMethod, PyStr(S_en))

InitArgs ==
    \E argsp \in ParamsOver(ArgIndexes), n \in 0..MaxArgs :
        \E p \in {NoParams, argsp, ParamList(<<PyInt(0)>>)} :
            InitCommon(p, argsp, ArgsOfLen(n), EmptyDict, DefaultRequest, DefaultView,
                       DefaultMethod, PyStr(S_en))

InitUser ==
    \E has_user \in BOOLEAN,
       user \in {NoUser} \cup {User(auth, id) : auth \in BOOLEAN,
                                               id \in {PyNone, PyInt(10), PyInt(7)}} :
        /\ (~has_user => user = NoUser)
        /\ InitCommon(ParamList(<<>>), NoParams, <<>>, EmptyDict,
                      Request(EmptyDict, EmptyDict, has_user, user, PyStr(S_json)),
                      DefaultView, DefaultMethod, PyStr(S_en))

InitSql ==
    \E empty \in BOOLEAN, filter_none \in BOOLEAN, lookup_field \in {S_pk, S_slug},
       kw \in LookupDicts :
        InitCommon(ParamList(<<>>), NoParams, <<>>, EmptyDict, DefaultRequest,
                   View(FALSE, PyNone, FALSE, PyNone, QuerySet(empty, S_SELECT),
                        filter_none, lookup_field, kw),
                   DefaultMethod, PyStr(S_en))

InitIdentity ==
    \E method \in {S_list, S_id}, lang \in {PyStr(S_en), PyStr(S_ru), PyNone},
       format \in {PyStr(S_json), PyStr(S_html)} :
        InitCommon(ParamList(<<>>), NoParams, <<>>, EmptyDict,
                   Request(EmptyDict, EmptyDict, FALSE, NoUser, format),
                   DefaultView, [name |-> method], lang)

Init ==
    \/ InitMeta
    \/ InitQuery
    \/ InitKwargs
    \/ InitArgs
    \/ InitUser
    \/ InitSql
    \/ InitIdentity

(***************************************************************************)
(* Calls: one get_data call of one key bit on the context                  *)
(***************************************************************************)
\* A call of a bit that hands its arguments on as they are: the outcome is recorded, nothing
\* the bit or the caller holds is assigned to.
Call(bit) ==
    /\ last' = [bit |-> bit, out |-> get_data(bit)]
    /\ UNCHANGED <<self_params, params, args, kwargs, request, view_instance,
                   view_method, language>>

KeyBitBase_call == Call("KeyBitBase")
KeyBitDictBase_call == Call("KeyBitDictBase")
UniqueViewIdKeyBit_call == Call("UniqueViewIdKeyBit")
UniqueMethodIdKeyBit_call == Call("UniqueMethodIdKeyBit")
LanguageKeyBit_call == Call("LanguageKeyBit")
FormatKeyBit_call == Call("FormatKeyBit")
UserKeyBit_call == Call("UserKeyBit")
HeadersKeyBit_call == Call("HeadersKeyBit")
RequestMetaKeyBit_call == Call("RequestMetaKeyBit")
QueryParamsKeyBit_call == Call("QueryParamsKeyBit")
ListSqlQueryKeyBit_call == Call("ListSqlQueryKeyBit")
RetrieveSqlQueryKeyBit_call == Call("RetrieveSqlQueryKeyBit")
ArgsKeyBit_call == Call("ArgsKeyBit")

KwargsKeyBit_call ==
    /\ last' = [bit |-> "KwargsKeyBit", out |-> get_data("KwargsKeyBit")]
    /\ params' = KwargsKeyBit_caller_params(params, kwargs)
    /\ UNCHANGED <<self_params, args, kwargs, request, view_instance,
                   view_method, language>>

PaginationKeyBit_call ==
    /\ last' = [bit |-> "PaginationKeyBit", out |-> get_data("PaginationKeyBit")]
    /\ params' = PaginationKeyBit_caller_params(params, view_instance)
    /\ UNCHANGED <<self_params, args, kwargs, request, view_instance,
                   view_method, language>>

Next ==
    \/ KeyBitBase_call
    \/ KeyBitDictBase_call
    \/ UniqueViewIdKeyBit_call
    \/ UniqueMethodIdKeyBit_call
    \/ LanguageKeyBit_call
    \/ FormatKeyBit_call
    \/ UserKeyBit_call
    \/ HeadersKeyBit_call
    \/ RequestMetaKeyBit_call
    \/ QueryParamsKeyBit_call
    \/ PaginationKeyBit_call
    \/ ListSqlQueryKeyBit_call
    \/ RetrieveSqlQueryKeyBit_call
    \/ ArgsKeyBit_call
    \/ KwargsKeyBit_call

Spec == Init /\ [][Next]_vars

(***************************************************************************)
(* Properties                                                              *)
(***************************************************************************)
\* the number a decimal text denotes
RECURSIVE DecimalValue(_)
DecimalValue(x) ==
    IF Len(x) = 0 THEN 0
    ELSE 10 * DecimalValue(SubSeq(x, 1, Len(x) - 1))
         + ((CHOOSE m \in 1..Len(DigitChars) : DigitChars[m] = x[Len(x)]) - 1)

\* o is the text coercion of the value v
IsTextOf(o, v) ==
    /\ o.t = "str"
    /\ CASE v.t = "str" -> o.s = v.s
         [] v.t = "int" -> /\ IsDigits(o.s)
                           /\ Len(o.s) = 1 \/ o.s[1] # "0"
                           /\ DecimalValue(o.s) = v.i
         [] OTHER -> o.s = S_None

Elements(l) == {l[n] : n \in 1..Len(l)}

Called(bit) == last.bit = bit

\* the field list a dict-source bit hands to KeyBitDictBase.get_data
DictFields(bit) ==
    CASE bit = "PaginationKeyBit" -> PaginationKeyBit_fields(params, view_instance)
      [] bit = "KwargsKeyBit" -> KwargsKeyBit_params(params, kwargs)
      [] OTHER -> params

\* C1: the mapping a dict-source bit returns holds, for every field of its
\* field list, no assignment key when the retrieval key is missing from the
\* source mapping or maps to None, and otherwise the assignment key mapped to
\* the text coercion of the source value; it holds no other key.
C1_DictSourceContract ==
    \A bit \in DictBits :
        (Called(bit) /\ last.out.kind = "return") =>
            LET fields == Elements(DictFields(bit).l)
                source == get_source_dict(bit, request, kwargs)
                found(key) == Dict_get(source, prepare_key_for_value_retrieving(bit, key))
                akey(key) == prepare_key_for_value_assignment(bit, key).s
                out == last.out.d
            IN /\ last.out.t = "dict"
               /\ \A key \in fields :
                      IF found(key).t = "None"
                      THEN akey(key) \notin DOMAIN out
                      ELSE /\ akey(key) \in DOMAIN out
                           /\ IsTextOf(out[akey(key)], found(key))
               /\ \A k \in DOMAIN out : \E key \in fields : akey(key) = k

C1_Witness ==
    /\ Called("QueryParamsKeyBit")
    /\ params = ParamList(<<PyStr(S_part), PyStr(S_page)>>)
    /\ DOMAIN request.GET = {S_page_size, S_page}
    /\ last.out = RetDict([k \in {S_page} |-> PyStr(<<"1">>)])

\* the declared pagination parameter names that are in the query parameters
DeclaredPresent ==
    {k \in DOMAIN request.GET :
        \/ view_instance.has_page_kwarg /\ view_instance.page_kwarg = PyStr(k)
        \/ view_instance.has_paginate_by_param
           /\ view_instance.paginate_by_param = PyStr(k)}

\* C2 as stated: every field of params that is in the query parameters is in
\* PaginationKeyBit's output, together with the declared pagination
\* parameters that are present.
C2_ParamsKept ==
    Called("PaginationKeyBit") =>
        /\ last.out.kind = "return"
        /\ \A k \in DeclaredPresent : k \in DOMAIN last.out.d
        /\ params.t = "list" =>
               \A key \in Elements(params.l) :
                   Dict_get(request.GET, key).t # "None" => key.s \in DOMAIN last.out.d

\* C2: PaginationKeyBit looks up the view's page_kwarg and paginate_by_param,
\* each only if the view declares it, and nothing else: the params passed in
\* are discarded.  The output maps exactly the declared parameter names that
\* are in the query parameters to the text of their values.
C2_OnlyDeclared ==
    Called("PaginationKeyBit") =>
        /\ last.out.kind = "return"
        /\ last.out.t = "dict"
        /\ DOMAIN last.out.d = DeclaredPresent
        /\ \A k \in DeclaredPresent : IsTextOf(last.out.d[k], request.GET[k])

C2_Witness ==
    /\ Called("PaginationKeyBit")
    /\ params = ParamList(<<PyStr(S_part)>>)
    /\ view_instance.has_page_kwarg
    /\ view_instance.paginate_by_param = PyStr(S_page_size)
    /\ request.GET = [k \in {S_page, S_page_size, S_part} |->
                         IF k = S_page_size THEN PyInt(100) ELSE PyStr(<<"1">>)]
    /\ last.out = RetDict([k \in {S_page, S_page_size} |->
                              IF k = S_page THEN PyStr(<<"1">>)
                              ELSE PyStr(<<"1", "0", "0">>)])

\* C3: when the view's kwargs hold the lookup field, RetrieveSqlQueryKeyBit
\* returns and never raises: None when the lookup value does not convert or
\* the narrowed queryset is the empty sentinel, else the narrowed query text.
C3_RetrieveNeverRaises ==
    (Called("RetrieveSqlQueryKeyBit")
     /\ view_instance.lookup_field \in DOMAIN view_instance.kwargs) =>
        LET field == view_instance.lookup_field
            value == view_instance.kwargs[field]
            filtered == filter_queryset(view_instance, get_queryset(view_instance))
        IN /\ last.out.kind = "return"
           /\ ~Converts(field, value) => last.out = RetNone
           /\ filtered.empty => last.out = RetNone
           /\ (Converts(field, value) /\ ~filtered.empty) =>
                  last.out = RetStr(filtered.query \o S_WHERE \o field \o S_eq
                                    \o force_text(value))

C3_Witness ==
    /\ Called("RetrieveSqlQueryKeyBit")
    /\ view_instance.lookup_field = S_pk
    /\ S_pk \in DOMAIN view_instance.kwargs
    /\ view_instance.kwargs[S_pk] = PyStr(S_abc)
    /\ ~view_instance.queryset.empty
    /\ ~view_instance.filter_none
    /\ last.out = RetNone

\* C4: KwargsKeyBit reads kwargs.  With params None or empty the output maps
\* every key of kwargs whose value is not None to the text of its value; with
\* params given it maps only the fields of params that kwargs holds.
C4_KwargsDefaultsToAllKeys ==
    Called("KwargsKeyBit") =>
        LET present == {k \in DOMAIN kwargs : kwargs[k].t # "None"}
            configured == {key.s : key \in {e \in Elements(params.l) : e.t = "str"}}
        IN /\ last.out.kind = "return"
           /\ last.out.t = "dict"
           /\ DOMAIN last.out.d =
                  IF params.t = "None" \/ params.l = <<>>
                  THEN present ELSE present \cap configured
           /\ \A k \in DOMAIN last.out.d : IsTextOf(last.out.d[k], kwargs[k])

C4_Witness ==
    /\ Called("KwargsKeyBit")
    /\ params = NoParams
    /\ kwargs = [k \in {S_id, S_format} |->
                    IF k = S_id THEN PyStr(<<"5">>) ELSE PyStr(S_json)]
    /\ last.out = RetDict(kwargs)

\* C5 as stated: ArgsKeyBit returns args when the call's params is None, and
\* the elements of args at the positions of the call's params otherwise.
C5_ArgsFollowCallParams ==
    Called("ArgsKeyBit") =>
        IF params.t = "None" THEN last.out = RetList(args)
        ELSE (\A i \in Elements(params.l) : i.t = "int" /\ i.i < Len(args)) =>
                 last.out = RetList([n \in 1..Len(params.l) |-> args[params.l[n].i + 1]])

\* C6: UserKeyBit returns the text "anonymous" when the request has no user
\* attribute, a None user or a user that is not authenticated, and the text
\* of the user's id otherwise; it always returns a text.
C6_UserOrAnonymous ==
    Called("UserKeyBit") =>
        /\ last.out.kind = "return"
        /\ last.out.t = "str"
        /\ IF request.has_user /\ request.user.t = "User"
              /\ request.user.is_authenticated
           THEN IsTextOf(PyStr(last.out.s), request.user.id)
           ELSE last.out.s = S_anonymous

C6_Witness ==
    /\ Called("UserKeyBit")
    /\ request.has_user
    /\ request.user = User(TRUE, PyInt(10))
    /\ last.out = RetStr(<<"1", "0">>)

\* C7: for every header name H of params whose prepared lookup key is in
\* request.META with a value v, HeadersKeyBit's output maps lower(H) to the
\* text of v; every output key is lower case, whatever the case of H.
C7_HeadersLowerCased ==
    (Called("HeadersKeyBit") /\ last.out.kind = "return") =>
        /\ \A H \in Elements(params.l) :
               LET v == Dict_get(request.META, PyStr(prepare_header_name(Lower(H.s))))
               IN v.t # "None" =>
                      /\ Lower(H.s) \in DOMAIN last.out.d
                      /\ IsTextOf(last.out.d[Lower(H.s)], v)
        /\ \A k \in DOMAIN last.out.d : k = Lower(k)

C7_Witness ==
    /\ Called("HeadersKeyBit")
    /\ params = ParamList(<<PyStr(S_Accept_Language)>>)
    /\ S_http_accept_language \in DOMAIN request.META
    /\ request.META[S_http_accept_language] = PyStr(S_ru)
    /\ last.out = RetDict([k \in {S_accept_language} |-> PyStr(S_ru)])

\* C8: ListSqlQueryKeyBit returns None exactly when the view's filtered
\* queryset is the empty sentinel, and the text of its query otherwise.
C8_ListSqlNoneIffEmpty ==
    Called("ListSqlQueryKeyBit") =>
        LET filtered == filter_queryset(view_instance, get_queryset(view_instance))
        IN /\ last.out.kind = "return"
           /\ last.out.t = "None" <=> filtered.empty
           /\ ~filtered.empty => last.out = RetStr(filtered.query)

C8_Witness ==
    /\ Called("ListSqlQueryKeyBit")
    /\ view_instance.filter_none
    /\ ~view_instance.queryset.empty
    /\ last.out = RetNone

C10_NothingMutated ==
    [][/\ self_params' = self_params
       /\ params' = params
       /\ args' = args
       /\ kwargs' = kwargs]_vars

C10_Witness ==
    /\ Called("KwargsKeyBit")
    /\ params = ParamList(<<>>)
    /\ DOMAIN kwargs = {S_id, S_format}
    /\ DOMAIN last.out.d = {S_id, S_format}

====
